---------------------------- MODULE Spec2Model ----------------------------
(***************************************************************************)
(* Credential / session lifecycle of the Koa boilerplate: AuthService      *)
(* (services/authService.js) serving concurrent requests against the User  *)
(* table, with the JWT codec of the jsonwebtoken package.                   *)
(*                                                                         *)
(* An async method is cut at its awaits: every store access is one atomic  *)
(* step, and the code between two awaits runs with the step that resumes   *)
(* it. Requests run in the slots Procs; a slot that holds an outcome can   *)
(* take the next call.                                                     *)
(*                                                                         *)
(* Around the service stands the HTTP boundary: the routes of /api/auth     *)
(* with their middleware (validate, authenticate), the controllers of       *)
(* AuthController and the global errorHandler.                              *)
(***************************************************************************)
EXTENDS Integers, Sequences, FiniteSets, TLC

(***************************** bounds **************************************)
MaxUsers == 2        \* rows the table may hold
MaxTime == 3         \* last instant of the clock
MaxCalls == 2        \* calls made in a run

Procs == {"r1", "r2"}
Ids == {1, 2, 3}
Emails == {"a@x.io", "b@x.io"}
Passwords == {"secret1", "secret2"}
FirstNames == {"Ann"}
LastNames == {"Lee"}
Salts == {"salt1"}

(*************************** program constants *****************************)
JWT_SECRET == "your-super-secret-jwt-key"
JWT_EXPIRES_IN == 2  \* '24h', in clock units of 12 hours
OtherSecret == "not-the-secret"

MsgDuplicate == "User with this email already exists"
MsgInvalidCredentials == "Invalid credentials"
MsgDisabled == "Account is disabled"
MsgInvalidToken == "Invalid or expired token"
MsgNotFound == "User not found"
MsgUniqueViolation == "SequelizeUniqueConstraintError"

VARIABLES
    users,         \* the User table, in insertion order
    now,           \* the clock
    served,        \* calls started so far
    pc,            \* where each request stands
    op,            \* the method each slot runs
    args,          \* its arguments
    existingUser,  \* register's local existingUser
    user,          \* the local user: the model instance in memory
    stamp,         \* the clock reading the call took
    result,        \* the outcome: what was returned or thrown
    calls,         \* the store methods the call has invoked
    persisted,     \* lastLogin of the row right after the call's UPDATE
    http           \* the HTTP request around the call and its response

vars == <<users, now, served, pc, op, args, existingUser, user, stamp,
          result, calls, persisted, http>>

(***************************** values **************************************)
NoTime == -1
NoHash == [alg |-> "none", salt |-> "", plain |-> ""]
NoUser == [id |-> 0, email |-> "", password |-> NoHash, firstName |-> "",
           lastName |-> "", isActive |-> FALSE, lastLogin |-> NoTime]
NoProjection == [id |-> 0, email |-> "", firstName |-> "", lastName |-> "",
                 isActive |-> FALSE, lastLogin |-> NoTime]
NoPayload == [id |-> 0, email |-> "", iat |-> NoTime, exp |-> NoTime]
NoSig == [alg |-> "none", key |-> "", signed |-> NoPayload]
NoToken == [form |-> "none", payload |-> NoPayload, sig |-> NoSig]
NoArgs == [email |-> "", password |-> "", firstName |-> "", lastName |-> "",
           userId |-> 0, token |-> NoToken]
NoResult == [kind |-> "none", message |-> "", user |-> NoProjection,
             token |-> NoToken, decoded |-> NoPayload]

\* return { user, token }
Ok(u, t) == [kind |-> "ok", message |-> "", user |-> u, token |-> t,
             decoded |-> NoPayload]
\* return of the decoded payload
OkDecoded(d) == [kind |-> "ok", message |-> "", user |-> NoProjection,
                 token |-> NoToken, decoded |-> d]
\* throw new Error(m)
Err(m) == [kind |-> "error", message |-> m, user |-> NoProjection,
           token |-> NoToken, decoded |-> NoPayload]

(************************ User model (models/User.js) **********************)
\* beforeCreate hook: the stored password is a salted one-way hash.
HashPassword(plain, salt) == [alg |-> "bcrypt", salt |-> salt, plain |-> plain]

\* user.comparePassword(candidate): bcrypt.compare against the stored hash.
ComparePassword(u, candidate) ==
    /\ u.password.alg = "bcrypt"
    /\ HashPassword(candidate, u.password.salt) = u.password

\* user.toJSON(): the row without the password hash.
ToJSON(u) == [id |-> u.id, email |-> u.email, firstName |-> u.firstName,
              lastName |-> u.lastName, isActive |-> u.isActive,
              lastLogin |-> u.lastLogin]

Rows == {users[i] : i \in 1..Len(users)}

\* User.findOne({ where: { email } }): what the query may answer.
FindOne(email) ==
    IF \E u \in Rows : u.email = email
    THEN {u \in Rows : u.email = email}
    ELSE {NoUser}

\* User.findByPk(id)
FindByPk(id) ==
    IF \E u \in Rows : u.id = id THEN {u \in Rows : u.id = id} ELSE {NoUser}

UniqueEmailOff(email) == TRUE

\* The unique index on email: does the table accept a row with this email?
UniqueEmailOk(email) == \A u \in Rows : u.email # email

\* The row User.create inserts: generated id, hashed password, defaults.
NewRow(data, salt) ==
    [id |-> Len(users) + 1, email |-> data.email,
     password |-> HashPassword(data.password, salt),
     firstName |-> data.firstName, lastName |-> data.lastName,
     isActive |-> TRUE, lastLogin |-> NoTime]

(************************ Token codec (jsonwebtoken) ***********************)
\* The HMAC over the payload under a key.
Sign(payload, key) == [alg |-> "HS256", key |-> key, signed |-> payload]

\* jwt.sign(payload, secret, { expiresIn }) at instant t; without expiresIn
\* (NoTime) the token carries no exp.
JwtSign(payload, key, lifetime, t) ==
    LET full == [id |-> payload.id, email |-> payload.email, iat |-> t,
                 exp |-> IF lifetime = NoTime THEN NoTime ELSE t + lifetime]
    IN [form |-> "jwt", payload |-> full, sig |-> Sign(full, key)]

\* jwt.verify(token, secret) at instant t: the name of the error thrown, or
\* "ok". Structure first, then the signature, then the expiry.
JwtVerifyError(token, key, t) ==
    IF token.form # "jwt" THEN "JsonWebTokenError"
    ELSE IF token.sig # Sign(token.payload, key) THEN "JsonWebTokenError"
    ELSE IF token.payload.exp # NoTime /\ t >= token.payload.exp
         THEN "TokenExpiredError"
    ELSE "ok"

(************************** AuthService helpers ****************************)
generateTokenNoExpiry(u, t) ==
    JwtSign([id |-> u.id, email |-> u.email], JWT_SECRET, NoTime, t)

generateTokenNoEmail(u, t) ==
    JwtSign([id |-> u.id, email |-> ""], JWT_SECRET, JWT_EXPIRES_IN, t)

\* AuthService.generateToken(user) at instant t.
generateToken(u, t) ==
    JwtSign([id |-> u.id, email |-> u.email], JWT_SECRET, JWT_EXPIRES_IN, t)

verifyTokenAlwaysThrows(token, t) == Err(MsgInvalidToken)

verifyTokenChecksStore(token, t) ==
    IF /\ JwtVerifyError(token, JWT_SECRET, t) = "ok"
       /\ \E u \in Rows : u.id = token.payload.id /\ u.isActive
    THEN OkDecoded(token.payload)
    ELSE Err(MsgInvalidToken)

verifyTokenRethrows(token, t) ==
    IF JwtVerifyError(token, JWT_SECRET, t) = "ok"
    THEN OkDecoded(token.payload)
    ELSE Err(JwtVerifyError(token, JWT_SECRET, t))

\* AuthService.verifyToken(token) at instant t.
verifyToken(token, t) ==
    IF JwtVerifyError(token, JWT_SECRET, t) = "ok"
    THEN OkDecoded(token.payload)
    ELSE Err(MsgInvalidToken)

RegisterRejectsNever(eu) == FALSE

\* register: if (existingUser)
RegisterRejects(eu) == eu # NoUser

\* register: the object handed to User.create
CreateData(userData) ==
    [email |-> userData.email, password |-> userData.password,
     firstName |-> userData.firstName, lastName |-> userData.lastName]

RegisterResultRaw(u, t) == Ok(u, generateToken(u, t))

\* register: return { user: user.toJSON(), token }
RegisterResult(u, t) == Ok(ToJSON(u), generateToken(u, t))

\* login: if (!user)
LoginUserMissing(u) == u = NoUser

LoginMissingErrorLeaky == Err(MsgNotFound)

\* login: what it throws when no row has the email
LoginMissingError == Err(MsgInvalidCredentials)

LoginDisabledNever(u) == FALSE

\* login: if (!user.isActive)
LoginDisabled(u) == ~u.isActive

\* login: if (!isValidPassword)
LoginPasswordRejected(u, password) == ~ComparePassword(u, password)

\* login: return { user: user.toJSON(), token }
LoginResult(u, t) == Ok(ToJSON(u), generateToken(u, t))

GetUserByIdResultUnchecked(u) == Ok(ToJSON(u), NoToken)

\* getUserById: if (!user) throw ...; return user.toJSON()
GetUserByIdResult(u) ==
    IF u = NoUser THEN Err(MsgNotFound) ELSE Ok(ToJSON(u), NoToken)

(***************************** HTTP boundary *******************************)
MsgValidationFailed == "Validation failed"
MsgValidationError == "Validation error occurred"
MsgNoToken == "No token provided"
MsgBadToken == "Invalid token"
MsgTokenExpired == "Token expired"
MsgInternal == "Internal server error"
MsgConnection == "SequelizeConnectionError"

\* The Authorization header: absent, or a scheme and a credential.
NoHeader == [scheme |-> "none", token |-> NoToken]
Bearer(t) == [scheme |-> "Bearer", token |-> t]
Basic(t) == [scheme |-> "Basic", token |-> t]

\* A JSON body is a record of the fields it carries.
NoBody == [f \in {} |-> ""]

NoHttp == [route |-> "none", stage |-> "none", body |-> NoBody,
           header |-> NoHeader, handler |-> FALSE, status |-> 0,
           success |-> FALSE, message |-> "", user |-> NoProjection,
           token |-> NoToken]

\* What a middleware or a controller leaves behind: a response set on ctx,
\* or an error thrown to the middleware above it.
\* ctx.status = s; ctx.body = { success: true, data: { user, token } }
Respond(s, u, t) ==
    [thrown |-> FALSE, name |-> "", status |-> s, success |-> TRUE,
     message |-> "", user |-> u, token |-> t]
\* ctx.status = s; ctx.body = { success: false, error: { message: m } }
Refuse(s, m) ==
    [thrown |-> FALSE, name |-> "", status |-> s, success |-> FALSE,
     message |-> m, user |-> NoProjection, token |-> NoToken]
\* ctx.throw(s, m)
Throw(s, m) ==
    [thrown |-> TRUE, name |-> "HttpError", status |-> s, success |-> FALSE,
     message |-> m, user |-> NoProjection, token |-> NoToken]
\* An error of a library, thrown as it is: it carries no status.
Raise(n, m) ==
    [thrown |-> TRUE, name |-> n, status |-> 0, success |-> FALSE,
     message |-> m, user |-> NoProjection, token |-> NoToken]

\* Joi.string().email() on the addresses clients send: local@domain.tld
Locals == {"a", "b"}
Domains == {"x.io"}
IsEmail(s) == \E l \in Locals, d \in Domains : s = l \o "@" \o d

RegisterSchemaAcceptsAll(b) == TRUE

\* authValidator.register: does the body pass?
RegisterSchemaOk(b) ==
    /\ "email" \in DOMAIN b /\ IsEmail(b.email)
    /\ "password" \in DOMAIN b
    /\ Len(b.password) >= 6 /\ Len(b.password) <= 100
    /\ "firstName" \in DOMAIN b => Len(b.firstName) <= 50
    /\ "lastName" \in DOMAIN b => Len(b.lastName) <= 50

\* authValidator.login: does the body pass?
LoginSchemaOk(b) ==
    /\ "email" \in DOMAIN b /\ IsEmail(b.email)
    /\ "password" \in DOMAIN b /\ Len(b.password) >= 1

\* validate: the response when the schema rejects the body
ValidationFailed == Refuse(400, MsgValidationFailed)

ValidateCatchRethrows(o) == o

\* validate: try { ...; await next() } catch (err) { ctx.throw(500, ...) },
\* applied to what the handler below it left behind.
ValidateCatch(o) ==
    IF o.thrown THEN Throw(500, MsgValidationError) ELSE o

AuthenticateCatchRethrows(o) == o

\* authenticate: catch (error), applied to what was thrown inside its try.
AuthenticateCatch(o) ==
    IF o.thrown /\ o.name = "JsonWebTokenError" THEN Throw(401, MsgBadToken)
    ELSE IF o.thrown /\ o.name = "TokenExpiredError"
         THEN Throw(401, MsgTokenExpired)
    ELSE o

\* errorHandler: the response for an error that reached the top.
errorHandler(o) ==
    IF o.thrown
    THEN Refuse(IF o.status # 0 THEN o.status ELSE 500,
                IF o.message # "" THEN o.message ELSE MsgInternal)
    ELSE o

\* AuthController.register, given the outcome r of AuthService.register
ControllerRegister(r) ==
    IF r.kind = "ok" THEN Respond(201, r.user, r.token)
    ELSE Throw(400, r.message)

\* AuthController.login, given the outcome r of AuthService.login
ControllerLogin(r) ==
    IF r.kind = "ok" THEN Respond(200, r.user, r.token)
    ELSE Throw(401, r.message)

\* AuthController.getProfile, given the outcome r of getUserById
ControllerGetProfile(r) ==
    IF r.kind = "ok" THEN Respond(200, r.user, NoToken)
    ELSE Throw(404, r.message)

\* The middleware chain of a route above its controller's outcome o:
\* errorHandler over validate (register, login) or authenticate (me).
Chain(route, o) ==
    IF route = "me" THEN errorHandler(AuthenticateCatch(o))
    ELSE errorHandler(ValidateCatch(o))

\* The request record once the response o has been sent.
Answered(h, o) ==
    [h EXCEPT !.stage = "answered", !.status = o.status,
              !.success = o.success, !.message = o.message,
              !.user = o.user, !.token = o.token]

\* The controller of a route, given the outcome r of its service method.
Controller(route, r) ==
    IF route = "register" THEN ControllerRegister(r)
    ELSE IF route = "login" THEN ControllerLogin(r)
    ELSE ControllerGetProfile(r)

\* The request record h after a step of its service method that left the
\* method at l with outcome r: once the method has settled, the controller
\* sets the response or throws, and what it throws passes the catch of the
\* route's middleware and reaches errorHandler.
Settle(h, l, r) ==
    IF h.stage = "handler" /\ l = "done"
    THEN Answered(h, Chain(h.route, Controller(h.route, r)))
    ELSE h

(******************************* Init **************************************)
\* A row that an earlier registration left in the table.
Seed ==
    [id |-> 1, email |-> "a@x.io",
     password |-> HashPassword("secret1", "salt1"),
     firstName |-> "Ann", lastName |-> "Lee",
     isActive |-> TRUE, lastLogin |-> NoTime]

\* The service starts on an empty table or on one that holds a user.
Init ==
    /\ users \in {<<>>, <<Seed>>}
    /\ now = 0
    /\ served = 0
    /\ pc = [p \in Procs |-> "idle"]
    /\ op = [p \in Procs |-> "none"]
    /\ args = [p \in Procs |-> NoArgs]
    /\ existingUser = [p \in Procs |-> NoUser]
    /\ user = [p \in Procs |-> NoUser]
    /\ stamp = [p \in Procs |-> NoTime]
    /\ result = [p \in Procs |-> NoResult]
    /\ calls = [p \in Procs |-> {}]
    /\ persisted = [p \in Procs |-> NoTime]
    /\ http = [p \in Procs |-> NoHttp]

\* A slot is free before its first call and once it holds an outcome.
Free(p) == pc[p] \in {"idle", "done"}

\* A call starts in slot p: the method, its arguments, fresh locals.
Call(p, o, a) ==
    /\ served < MaxCalls
    /\ served' = served + 1
    /\ op' = [op EXCEPT ![p] = o]
    /\ args' = [args EXCEPT ![p] = a]
    /\ persisted' = [persisted EXCEPT ![p] = NoTime]

\* The request p ends with outcome r.
Finish(p, r) ==
    /\ pc' = [pc EXCEPT ![p] = "done"]
    /\ result' = [result EXCEPT ![p] = r]

\* The request p goes on to its next await.
Goto(p, l) ==
    /\ pc' = [pc EXCEPT ![p] = l]
    /\ result' = [result EXCEPT ![p] = NoResult]

\* The HTTP request around the call of slot p, if there is one, is answered
\* in the step in which the call settles.
Reply(p) ==
    http' = [http EXCEPT ![p] = Settle(http[p], pc'[p], result'[p])]

(***************************** register ************************************)
\* register(userData) up to the answer of User.findOne, and the call of
\* User.create that follows when no row was found.
RegisterStart(p, a) ==
    /\ Call(p, "register", a)
    /\ \E eu \in FindOne(a.email) :
         /\ existingUser' = [existingUser EXCEPT ![p] = eu]
         /\ IF RegisterRejects(eu)
            THEN /\ calls' = [calls EXCEPT ![p] = {"findOne"}]
                 /\ Finish(p, Err(MsgDuplicate))
            ELSE /\ calls' = [calls EXCEPT ![p] = {"findOne", "create"}]
                 /\ Goto(p, "reg_create")
    /\ user' = [user EXCEPT ![p] = NoUser]
    /\ stamp' = [stamp EXCEPT ![p] = NoTime]
    /\ UNCHANGED <<users, now>>

\* A direct call of register, with any user data.
RegisterFindOne(p) ==
    /\ Free(p)
    /\ \E e \in Emails, pw \in Passwords, fn \in FirstNames, ln \in LastNames :
         RegisterStart(p, [NoArgs EXCEPT !.email = e, !.password = pw,
                                         !.firstName = fn, !.lastName = ln])
    /\ UNCHANGED http

RegisterCreateNotPersisted(p) ==
    /\ pc[p] = "reg_create"
    /\ IF UniqueEmailOk(args[p].email)
       THEN /\ Len(users) < MaxUsers
            /\ \E s \in Salts :
                 /\ users' = users
                 /\ user' = [user EXCEPT ![p] = NewRow(CreateData(args[p]), s)]
            /\ pc' = [pc EXCEPT ![p] = "reg_token"]
            /\ UNCHANGED result
       ELSE /\ Finish(p, Err(MsgUniqueViolation))
            /\ UNCHANGED <<users, user>>
    /\ UNCHANGED <<now, served, op, args, existingUser, stamp, calls,
                   persisted>>
    /\ Reply(p)

\* The INSERT of User.create reaches the table: the unique index on email
\* rejects it or the row is stored. A rejection is thrown out of register
\* as it is: register has no catch.
RegisterCreate(p) ==
    /\ pc[p] = "reg_create"
    /\ IF UniqueEmailOk(args[p].email)
       THEN /\ Len(users) < MaxUsers
            /\ \E s \in Salts :
                 /\ users' = Append(users, NewRow(CreateData(args[p]), s))
                 /\ user' = [user EXCEPT ![p] = NewRow(CreateData(args[p]), s)]
            /\ pc' = [pc EXCEPT ![p] = "reg_token"]
            /\ UNCHANGED result
       ELSE /\ Finish(p, Err(MsgUniqueViolation))
            /\ UNCHANGED <<users, user>>
    /\ UNCHANGED <<now, served, op, args, existingUser, stamp, calls,
                   persisted>>
    /\ Reply(p)

\* register after User.create resolved: the token and the return.
RegisterReturn(p) ==
    /\ pc[p] = "reg_token"
    /\ Finish(p, RegisterResult(user[p], now))
    /\ UNCHANGED <<users, now, served, op, args, existingUser, user, stamp,
                   calls, persisted>>
    /\ Reply(p)

(******************************* login *************************************)
\* login(email, password) up to the answer of User.findOne, and the call of
\* user.comparePassword that follows.
LoginStart(p, a) ==
    /\ Call(p, "login", a)
    /\ \E u \in FindOne(a.email) :
         /\ user' = [user EXCEPT ![p] = u]
         /\ IF LoginUserMissing(u)
            THEN /\ calls' = [calls EXCEPT ![p] = {"findOne"}]
                 /\ Finish(p, LoginMissingError)
            ELSE IF LoginDisabled(u)
            THEN /\ calls' = [calls EXCEPT ![p] = {"findOne"}]
                 /\ Finish(p, Err(MsgDisabled))
            ELSE /\ calls' = [calls EXCEPT ![p] =
                                 {"findOne", "comparePassword"}]
                 /\ Goto(p, "login_compare")
    /\ existingUser' = [existingUser EXCEPT ![p] = NoUser]
    /\ stamp' = [stamp EXCEPT ![p] = NoTime]
    /\ UNCHANGED <<users, now>>

\* A direct call of login, with any email and password.
LoginFindOne(p) ==
    /\ Free(p)
    /\ \E e \in Emails, pw \in Passwords :
         LoginStart(p, [NoArgs EXCEPT !.email = e, !.password = pw])
    /\ UNCHANGED http

LoginCompareStampsFirst(p) ==
    /\ pc[p] = "login_compare"
    /\ IF LoginPasswordRejected(user[p], args[p].password)
       THEN /\ Finish(p, Err(MsgInvalidCredentials))
            /\ users' = [users EXCEPT ![user[p].id].lastLogin = now]
            /\ UNCHANGED <<stamp, calls>>
       ELSE /\ stamp' = [stamp EXCEPT ![p] = now]
            /\ calls' = [calls EXCEPT ![p] = @ \cup {"update"}]
            /\ pc' = [pc EXCEPT ![p] = "login_update"]
            /\ UNCHANGED <<users, result>>
    /\ UNCHANGED <<now, served, op, args, existingUser, user, persisted>>
    /\ Reply(p)

\* bcrypt.compare resolved: a mismatch throws; otherwise new Date() is read
\* and user.update is called.
LoginCompare(p) ==
    /\ pc[p] = "login_compare"
    /\ IF LoginPasswordRejected(user[p], args[p].password)
       THEN /\ Finish(p, Err(MsgInvalidCredentials))
            /\ UNCHANGED <<stamp, calls>>
       ELSE /\ stamp' = [stamp EXCEPT ![p] = now]
            /\ calls' = [calls EXCEPT ![p] = @ \cup {"update"}]
            /\ pc' = [pc EXCEPT ![p] = "login_update"]
            /\ UNCHANGED result
    /\ UNCHANGED <<users, now, served, op, args, existingUser, user, persisted>>
    /\ Reply(p)

LoginUpdateInMemoryOnly(p) ==
    /\ pc[p] = "login_update"
    /\ users' = users
    /\ persisted' = [persisted EXCEPT ![p] = users'[user[p].id].lastLogin]
    /\ user' = [user EXCEPT ![p] = [@ EXCEPT !.lastLogin = stamp[p]]]
    /\ pc' = [pc EXCEPT ![p] = "login_token"]
    /\ UNCHANGED <<now, served, op, args, existingUser, stamp, result, calls,
                   http>>

LoginUpdateWholeRow(p) ==
    /\ pc[p] = "login_update"
    /\ users' = [users EXCEPT ![user[p].id] =
                    [user[p] EXCEPT !.lastLogin = stamp[p]]]
    /\ persisted' = [persisted EXCEPT ![p] = users'[user[p].id].lastLogin]
    /\ user' = [user EXCEPT ![p] = [@ EXCEPT !.lastLogin = stamp[p]]]
    /\ pc' = [pc EXCEPT ![p] = "login_token"]
    /\ UNCHANGED <<now, served, op, args, existingUser, stamp, result, calls,
                   http>>

\* The UPDATE of user.update({ lastLogin }) reaches the table; the instance
\* in memory takes the new value too.
LoginUpdate(p) ==
    /\ pc[p] = "login_update"
    /\ users' = [users EXCEPT ![user[p].id] = [@ EXCEPT !.lastLogin = stamp[p]]]
    /\ persisted' = [persisted EXCEPT ![p] = users'[user[p].id].lastLogin]
    /\ user' = [user EXCEPT ![p] = [@ EXCEPT !.lastLogin = stamp[p]]]
    /\ pc' = [pc EXCEPT ![p] = "login_token"]
    /\ UNCHANGED <<now, served, op, args, existingUser, stamp, result, calls,
                   http>>

\* login after user.update resolved: the token and the return.
LoginReturn(p) ==
    /\ pc[p] = "login_token"
    /\ Finish(p, LoginResult(user[p], now))
    /\ UNCHANGED <<users, now, served, op, args, existingUser, user, stamp,
                   calls, persisted>>
    /\ Reply(p)

(***************************** getUserById *********************************)
\* getUserById(userId)
GetUserById(p) ==
    /\ Free(p)
    /\ \E i \in Ids :
         /\ Call(p, "getUserById", [NoArgs EXCEPT !.userId = i])
         /\ \E u \in FindByPk(i) :
              /\ user' = [user EXCEPT ![p] = u]
              /\ Finish(p, GetUserByIdResult(u))
    /\ calls' = [calls EXCEPT ![p] = {"findByPk"}]
    /\ existingUser' = [existingUser EXCEPT ![p] = NoUser]
    /\ stamp' = [stamp EXCEPT ![p] = NoTime]
    /\ UNCHANGED <<users, now, http>>

(************************* token codec calls *******************************)
\* A direct call of generateToken(user), with any id and email.
GenerateTokenCall(p) ==
    /\ Free(p)
    /\ \E i \in Ids, e \in Emails :
         /\ Call(p, "generateToken", [NoArgs EXCEPT !.userId = i, !.email = e])
         /\ Finish(p, Ok(NoProjection,
                         generateToken([id |-> i, email |-> e], now)))
    /\ stamp' = [stamp EXCEPT ![p] = now]
    /\ calls' = [calls EXCEPT ![p] = {}]
    /\ existingUser' = [existingUser EXCEPT ![p] = NoUser]
    /\ user' = [user EXCEPT ![p] = NoUser]
    /\ UNCHANGED <<users, now, http>>

\* The tokens that calls have returned and a client holds.
HeldTokens ==
    {result[q].token : q \in {r \in Procs : result[r].token.form = "jwt"}}

\* A string that is no JWT, such as 'invalid.token.here'.
Malformed == [NoToken EXCEPT !.form = "malformed"]

\* What a client can make of a token without the secret: a later expiry or
\* another id under the old signature, or a signature under its own key.
Tampered(t) ==
    {[t EXCEPT !.payload.exp = @ + 1],
     [t EXCEPT !.payload.id = (@ % 3) + 1],
     [t EXCEPT !.sig = Sign(t.payload, OtherSecret)]}

PresentedTokens ==
    HeldTokens \cup UNION {Tampered(t) : t \in HeldTokens} \cup {Malformed}

\* verifyToken(token), at the clock reading of the call.
VerifyTokenCall(p, t) ==
    /\ Free(p)
    /\ Call(p, "verifyToken", [NoArgs EXCEPT !.token = t])
    /\ Finish(p, verifyToken(t, now))
    /\ stamp' = [stamp EXCEPT ![p] = now]
    /\ calls' = [calls EXCEPT ![p] = {}]
    /\ existingUser' = [existingUser EXCEPT ![p] = NoUser]
    /\ user' = [user EXCEPT ![p] = NoUser]
    /\ UNCHANGED <<users, now, http>>

(***************************** environment *********************************)
\* Active <-> Disabled: the administrative action, outside the service.
AdminSetActive ==
    /\ \E i \in 1..Len(users) :
         users' = [users EXCEPT ![i].isActive = ~@]
    /\ UNCHANGED <<now, served, pc, op, args, existingUser, user, stamp,
                   result, calls, persisted, http>>

\* The clock advances.
Tick ==
    /\ now < MaxTime
    /\ now' = now + 1
    /\ UNCHANGED <<users, served, pc, op, args, existingUser, user, stamp,
                   result, calls, persisted, http>>

Next ==
    \/ \E p \in Procs : RegisterFindOne(p)
    \/ \E p \in Procs : RegisterCreate(p)
    \/ \E p \in Procs : RegisterReturn(p)
    \/ \E p \in Procs : LoginFindOne(p)
    \/ \E p \in Procs : LoginCompare(p)
    \/ \E p \in Procs : LoginUpdate(p)
    \/ \E p \in Procs : LoginReturn(p)
    \/ \E p \in Procs : GetUserById(p)
    \/ \E p \in Procs : \E t \in HeldTokens \cup {Malformed} :
            VerifyTokenCall(p, t)
    \/ AdminSetActive
    \/ Tick

\* The service: requests against the table, and verifyToken on the tokens
\* they returned.
Spec == Init /\ [][Next]_vars

NextCodec ==
    \/ \E p \in Procs : GenerateTokenCall(p)
    \/ \E p \in Procs : \E t \in PresentedTokens : VerifyTokenCall(p, t)
    \/ Tick

\* The token codec alone: generateToken and verifyToken called directly, on
\* genuine, tampered and malformed tokens.
SpecCodec == Init /\ [][NextCodec]_vars

(***************************** HTTP requests *******************************)
\* A password of 101 characters.
LongPassword ==
    "ppppppppppppppppppppppppppppppppppppppppppppppppppppppppppppppppppppppppppppppppppppppppppppppppppppp"

\* The bodies clients post to /api/auth/register: the well-formed ones, and
\* one for each way the schema can fail.
RegisterBodies ==
    {[email |-> e, password |-> "secret1",
      firstName |-> fn, lastName |-> ln] :
        e \in Emails, fn \in FirstNames, ln \in LastNames}
    \cup {[email |-> "invalid-email", password |-> "secret1",
           firstName |-> "Ann", lastName |-> "Lee"],
          [email |-> "b@x.io", password |-> "123",
           firstName |-> "Ann", lastName |-> "Lee"],
          [email |-> "b@x.io", password |-> LongPassword,
           firstName |-> "Ann", lastName |-> "Lee"],
          [password |-> "secret1", firstName |-> "Ann", lastName |-> "Lee"],
          [email |-> "b@x.io", firstName |-> "Ann", lastName |-> "Lee"]}

\* The bodies clients post to /api/auth/login.
LoginBodies ==
    {[email |-> e, password |-> pw] : e \in Emails, pw \in Passwords}
    \cup {[email |-> "invalid-email", password |-> "secret1"]}

\* A field of a body; a field the body lacks is undefined.
Field(b, f) == IF f \in DOMAIN b THEN b[f] ELSE ""

\* ctx.request.body as the controller hands it to the service.
BodyArgs(b) ==
    [NoArgs EXCEPT !.email = Field(b, "email"),
                   !.password = Field(b, "password"),
                   !.firstName = Field(b, "firstName"),
                   !.lastName = Field(b, "lastName")]

\* Tokens issued before the run began: of the user with id 1, and of a
\* user whose id has no row.
EarlierTokens ==
    {generateToken([id |-> i, email |-> "a@x.io"], 0) : i \in {1, 3}}

\* The token t with its expiry moved on, under the old signature.
Extended(t) == [t EXCEPT !.payload.exp = @ + 1]

\* The Authorization headers clients send to /api/auth/me.
Headers ==
    {NoHeader}
    \cup {Basic(t) : t \in HeldTokens}
    \cup {Bearer(t) : t \in HeldTokens \cup EarlierTokens \cup {Malformed}}
    \cup {Bearer(Extended(t)) : t \in HeldTokens}

\* The slot can take an HTTP request: the one before it was answered.
HttpFree(p) == Free(p) /\ http[p].stage # "handler"

\* A request that is answered before any service method is called.
NoServiceCall(p) ==
    /\ served < MaxCalls
    /\ served' = served + 1
    /\ pc' = [pc EXCEPT ![p] = "idle"]
    /\ op' = [op EXCEPT ![p] = "none"]
    /\ args' = [args EXCEPT ![p] = NoArgs]
    /\ existingUser' = [existingUser EXCEPT ![p] = NoUser]
    /\ user' = [user EXCEPT ![p] = NoUser]
    /\ stamp' = [stamp EXCEPT ![p] = NoTime]
    /\ result' = [result EXCEPT ![p] = NoResult]
    /\ persisted' = [persisted EXCEPT ![p] = NoTime]
    /\ UNCHANGED <<users, now>>

\* The request enters its controller, which calls the service method; the
\* method may settle in the same step.
Handling(p, route, b, h) ==
    http' = [http EXCEPT ![p] =
                Settle([NoHttp EXCEPT !.route = route, !.stage = "handler",
                                      !.body = b, !.header = h,
                                      !.handler = TRUE],
                       pc'[p], result'[p])]

\* The request is answered by a middleware; its controller never runs.
Rejecting(p, route, b, h, o) ==
    http' = [http EXCEPT ![p] =
                Answered([NoHttp EXCEPT !.route = route, !.body = b,
                                        !.header = h], o)]

\* POST /api/auth/register: validate(authValidator.register), then
\* AuthController.register up to the answer of register's User.findOne.
HttpRegister(p) ==
    /\ HttpFree(p)
    /\ \E b \in RegisterBodies :
         IF RegisterSchemaOk(b)
         THEN /\ RegisterStart(p, BodyArgs(b))
              /\ Handling(p, "register", b, NoHeader)
         ELSE /\ NoServiceCall(p)
              /\ calls' = [calls EXCEPT ![p] = {}]
              /\ Rejecting(p, "register", b, NoHeader, ValidationFailed)

\* POST /api/auth/login: validate(authValidator.login), then
\* AuthController.login up to the answer of login's User.findOne.
HttpLogin(p) ==
    /\ HttpFree(p)
    /\ \E b \in LoginBodies :
         IF LoginSchemaOk(b)
         THEN /\ LoginStart(p, BodyArgs(b))
              /\ Handling(p, "login", b, NoHeader)
         ELSE /\ NoServiceCall(p)
              /\ calls' = [calls EXCEPT ![p] = {}]
              /\ Rejecting(p, "login", b, NoHeader, ValidationFailed)

\* GET /api/auth/me: authenticate up to the answer of User.findByPk, and,
\* when it lets the request through, AuthController.getProfile up to its
\* call of getUserById.
HttpMeAuthenticate(p) ==
    /\ HttpFree(p)
    /\ \E h \in Headers :
         IF h.scheme # "Bearer"
         THEN /\ NoServiceCall(p)
              /\ calls' = [calls EXCEPT ![p] = {}]
              /\ Rejecting(p, "me", NoBody, h,
                           Chain("me", Throw(401, MsgNoToken)))
         ELSE IF JwtVerifyError(h.token, JWT_SECRET, now) # "ok"
         THEN /\ NoServiceCall(p)
              /\ calls' = [calls EXCEPT ![p] = {}]
              /\ Rejecting(p, "me", NoBody, h,
                    Chain("me", Raise(JwtVerifyError(h.token, JWT_SECRET, now),
                                      "")))
         ELSE \E u \in FindByPk(h.token.payload.id) :
              IF u = NoUser
              THEN /\ NoServiceCall(p)
                   /\ calls' = [calls EXCEPT ![p] = {"findByPk"}]
                   /\ Rejecting(p, "me", NoBody, h,
                                Chain("me", Throw(401, MsgNotFound)))
              ELSE IF ~u.isActive
              THEN /\ NoServiceCall(p)
                   /\ calls' = [calls EXCEPT ![p] = {"findByPk"}]
                   /\ Rejecting(p, "me", NoBody, h,
                                Chain("me", Throw(401, MsgDisabled)))
              ELSE /\ Call(p, "getUserById",
                           [NoArgs EXCEPT !.userId = ToJSON(u).id])
                   /\ Goto(p, "me_profile")
                   /\ calls' = [calls EXCEPT ![p] = {"findByPk"}]
                   /\ existingUser' = [existingUser EXCEPT ![p] = NoUser]
                   /\ user' = [user EXCEPT ![p] = u]
                   /\ stamp' = [stamp EXCEPT ![p] = NoTime]
                   /\ Handling(p, "me", NoBody, h)
                   /\ UNCHANGED <<users, now>>

\* getUserById's User.findByPk answered: getProfile sets the response or
\* throws, and what it throws passes authenticate's catch and reaches
\* errorHandler.
HttpMeProfile(p) ==
    /\ pc[p] = "me_profile"
    /\ \E u \in FindByPk(args[p].userId) :
         /\ user' = [user EXCEPT ![p] = u]
         /\ Finish(p, GetUserByIdResult(u))
    /\ Reply(p)
    /\ UNCHANGED <<users, now, served, op, args, existingUser, stamp, calls,
                   persisted>>

NextHttp ==
    \/ \E p \in Procs : HttpRegister(p)
    \/ \E p \in Procs : RegisterCreate(p)
    \/ \E p \in Procs : RegisterReturn(p)
    \/ \E p \in Procs : HttpLogin(p)
    \/ \E p \in Procs : LoginCompare(p)
    \/ \E p \in Procs : LoginUpdate(p)
    \/ \E p \in Procs : LoginReturn(p)
    \/ \E p \in Procs : HttpMeAuthenticate(p)
    \/ \E p \in Procs : HttpMeProfile(p)
    \/ AdminSetActive
    \/ Tick

\* The HTTP boundary: every request comes through its route's middleware.
SpecHttp == Init /\ [][NextHttp]_vars

(************************* persistence failures ****************************)
\* The store fails under User.create or user.update (the connection is
\* lost): the rejection is thrown out of register or login as it is.
StoreFails(p) ==
    /\ pc[p] \in {"reg_create", "login_update"}
    /\ Finish(p, Err(MsgConnection))
    /\ UNCHANGED <<users, now, served, op, args, existingUser, user, stamp,
                   calls, persisted>>
    /\ Reply(p)

\* The store fails under the User.findByPk of getUserById: getProfile
\* catches the rejection.
HttpMeProfileFails(p) ==
    /\ pc[p] = "me_profile"
    /\ Finish(p, Err(MsgConnection))
    /\ Reply(p)
    /\ UNCHANGED <<users, now, served, op, args, existingUser, user, stamp,
                   calls, persisted>>

\* The store fails under the User.findByPk of authenticate, on a token
\* that verified.
HttpMeLookupFails(p) ==
    /\ HttpFree(p)
    /\ \E h \in Headers :
         /\ h.scheme = "Bearer"
         /\ JwtVerifyError(h.token, JWT_SECRET, now) = "ok"
         /\ NoServiceCall(p)
         /\ calls' = [calls EXCEPT ![p] = {"findByPk"}]
         /\ Rejecting(p, "me", NoBody, h,
                      Chain("me", Raise("SequelizeConnectionError",
                                        MsgConnection)))

NextHttpFaults ==
    \/ NextHttp
    \/ \E p \in Procs : StoreFails(p)
    \/ \E p \in Procs : HttpMeProfileFails(p)
    \/ \E p \in Procs : HttpMeLookupFails(p)

\* The HTTP boundary over a store that can fail.
SpecHttpFaults == Init /\ [][NextHttpFaults]_vars

TypeOK ==
    /\ now \in 0..MaxTime
    /\ served \in 0..MaxCalls
    /\ Len(users) <= MaxUsers
    /\ \A p \in Procs : pc[p] \in {"idle", "reg_create", "reg_token",
          "login_compare", "login_update", "login_token", "me_profile",
          "done"}

(***************************************************************************)
(*                              Properties                                 *)
(***************************************************************************)
Done(p, o) == pc[p] = "done" /\ op[p] = o

\* The row the table holds for an id.
Stored(i) == users[i]

\* C1: in every reachable state the table holds at most one row per email.
OneRowPerEmail ==
    \A i, j \in 1..Len(users) : users[i].email = users[j].email => i = j

\* C1 witness: two registrations of one email raced; one row was stored and
\* the other insert was rejected.
RacedRegistrationsOneRow ==
    \E p, q \in Procs :
        /\ p # q /\ Done(p, "register") /\ Done(q, "register")
        /\ args[p].email = args[q].email
        /\ result[p].kind = "ok"
        /\ existingUser[q] = NoUser /\ result[q].kind = "error"
        /\ Cardinality({i \in 1..Len(users) : users[i].email = args[p].email}) = 1

\* C2: a register whose lookup found no row and whose insert the table
\* rejected fails with 'User with this email already exists'.
RaceLoserGetsDuplicateError ==
    \A p \in Procs :
        (Done(p, "register") /\ existingUser[p] = NoUser
            /\ result[p].kind = "error")
        => result[p] = Err(MsgDuplicate)

\* C3: register with an email that has a row fails with 'User with this
\* email already exists', whatever else it was given, and never calls
\* User.create.
RegisterExistingEmailFails ==
    \A p \in Procs :
        (op[p] = "register" /\ existingUser[p] # NoUser)
        => /\ pc[p] = "done"
           /\ result[p] = Err(MsgDuplicate)
           /\ "create" \notin calls[p]

\* C3 witness: a register of a taken email, with another password than the
\* row's, has failed with the duplicate error.
RegisterExistingEmailFailed ==
    \E p \in Procs :
        /\ Done(p, "register") /\ existingUser[p] # NoUser
        /\ existingUser[p].email = args[p].email
        /\ ~ComparePassword(existingUser[p], args[p].password)
        /\ result[p] = Err(MsgDuplicate)

\* C4 as stated: a register whose lookup found no row for the email
\* succeeds.
RegisterOfFreeEmailSucceeds ==
    \A p \in Procs :
        (Done(p, "register") /\ existingUser[p] = NoUser)
        => result[p].kind = "ok"

\* The email of request p has no row.
EmailFree(p) == \A u \in Rows : u.email # args[p].email

\* C4 amended: a register whose lookup found no row, and whose email still
\* has none when its INSERT runs, stores exactly one new row, with that
\* email and isActive = TRUE, and returns the projection of that row without
\* the password hash, with a token.
RegisterOfFreeEmailAtInsertSucceeds ==
    /\ [][\A p \in Procs :
            (pc[p] = "reg_create" /\ pc'[p] # "reg_create" /\ EmailFree(p))
            => /\ pc'[p] = "reg_token"
               /\ Len(users') = Len(users) + 1
               /\ SubSeq(users', 1, Len(users)) = users
               /\ users'[Len(users')].email = args[p].email
               /\ users'[Len(users')].isActive
               /\ ComparePassword(users'[Len(users')], args[p].password)
               /\ user'[p] = users'[Len(users')]]_vars
    /\ [][\A p \in Procs :
            (pc[p] = "reg_token" /\ pc'[p] # "reg_token")
            => /\ pc'[p] = "done"
               /\ result'[p].kind = "ok"
               /\ result'[p].user = ToJSON(user[p])
               /\ "password" \notin DOMAIN result'[p].user
               /\ result'[p].token.form = "jwt"
               /\ users' = users]_vars

\* C4 witness: a register has returned the projection of the row it stored.
RegisterSucceeded ==
    \E p \in Procs :
        /\ Done(p, "register") /\ result[p].kind = "ok"
        /\ result[p].user.id \in 1..Len(users)
        /\ result[p].user.email = args[p].email
        /\ Stored(result[p].user.id).email = args[p].email

\* The login in slot p was given a password that is not the row's.
WrongPassword(p) ==
    user[p] # NoUser /\ ~ComparePassword(user[p], args[p].password)

\* C5 as stated: a login with a wrong password fails with 'Invalid
\* credentials' exactly as a login with an unknown email does, whatever the
\* row is.
WrongPasswordLikeUnknownEmail ==
    \A p \in Procs :
        (Done(p, "login") /\ (user[p] = NoUser \/ WrongPassword(p)))
        => result[p] = Err(MsgInvalidCredentials)

\* C5 amended: a login with an unknown email and a login with a wrong
\* password for an active account fail with the same 'Invalid credentials'.
WrongPasswordOnActiveLikeUnknownEmail ==
    \A p \in Procs :
        (Done(p, "login")
            /\ (user[p] = NoUser \/ (WrongPassword(p) /\ user[p].isActive)))
        => result[p] = Err(MsgInvalidCredentials)

\* C5 witness: one login of an unknown email and one with a wrong password
\* for an active account have ended with equal outcomes.
UnknownAndWrongPasswordEqual ==
    \E p, q \in Procs :
        /\ Done(p, "login") /\ user[p] = NoUser
        /\ Done(q, "login") /\ WrongPassword(q) /\ user[q].isActive
        /\ result[p] = result[q]

\* C6: a login that finds a disabled account fails with 'Account is
\* disabled' and no token, whatever the password.
DisabledLoginFails ==
    \A p \in Procs :
        (op[p] = "login" /\ user[p] # NoUser /\ ~user[p].isActive)
        => /\ pc[p] = "done"
           /\ result[p].kind = "error"
           /\ result[p].message = MsgDisabled
           /\ result[p].token = NoToken

\* C6 witness: a login with the right password for a disabled account has
\* failed.
DisabledLoginWithRightPasswordFailed ==
    \E p \in Procs :
        /\ Done(p, "login") /\ user[p] # NoUser /\ ~user[p].isActive
        /\ ComparePassword(user[p], args[p].password)
        /\ result[p].message = MsgDisabled

\* Slot v holds the outcome of verifyToken on the token slot p returned,
\* called before that token's expiry.
VerifiedInTime(p, v) ==
    /\ Done(v, "verifyToken")
    /\ result[p].token.form = "jwt"
    /\ args[v].token = result[p].token
    /\ stamp[v] < result[p].token.payload.exp

\* C7: a login with the right password for an active account returns a
\* token, and that token verifies, before its expiry, to the id and email of
\* the stored row of the user who logged in.
LoginTokenVerifiesToStoredUser ==
    /\ \A p \in Procs :
        (Done(p, "login") /\ user[p] # NoUser /\ user[p].isActive
            /\ ComparePassword(user[p], args[p].password))
        => /\ result[p].kind = "ok"
           /\ result[p].token.form = "jwt"
           /\ Stored(user[p].id).email = args[p].email
    /\ \A p, v \in Procs :
        (Done(p, "login") /\ result[p].kind = "ok" /\ VerifiedInTime(p, v))
        => /\ result[v].kind = "ok"
           /\ result[v].decoded.id = Stored(user[p].id).id
           /\ result[v].decoded.email = Stored(user[p].id).email

\* C7 witness: a login token has been verified in time.
LoginTokenVerified ==
    \E p, v \in Procs :
        /\ Done(p, "login") /\ result[p].kind = "ok" /\ VerifiedInTime(p, v)
        /\ result[v].kind = "ok"

\* C8: a login that is about to issue its token, or has returned, has
\* written lastLogin = its reading of the clock to the user's row.
LoginPersistsLastLoginFirst ==
    \A p \in Procs :
        (op[p] = "login"
            /\ (pc[p] = "login_token" \/ (pc[p] = "done" /\ result[p].kind = "ok")))
        => /\ stamp[p] \in 0..now
           /\ persisted[p] = stamp[p]
           /\ "update" \in calls[p]
           /\ pc[p] = "done" =>
                /\ result[p].user.lastLogin = stamp[p]
                /\ result[p].token.payload.iat >= stamp[p]

\* C8 witness: a login has returned after the clock moved, and the row still
\* holds the lastLogin it wrote.
LoginReturnedWithLastLogin ==
    \E p \in Procs :
        /\ Done(p, "login") /\ result[p].kind = "ok"
        /\ stamp[p] > 0
        /\ Stored(user[p].id).lastLogin = stamp[p]

\* C9 as stated: verifyToken on a token of generateToken({id, email}), before
\* its expiry, returns {id, email} and nothing else.
RoundTripExactlyIdEmail ==
    \A g, v \in Procs :
        (Done(g, "generateToken") /\ VerifiedInTime(g, v))
        => /\ result[v].kind = "ok"
           /\ result[v].decoded = [id |-> args[g].userId, email |-> args[g].email]

\* C9 amended: verifyToken on a token of generateToken({id, email}), before
\* its expiry, returns that id and email together with the claims iat and
\* exp that jwt.sign added.
RoundTripIdEmailWithTimes ==
    \A g, v \in Procs :
        (Done(g, "generateToken") /\ VerifiedInTime(g, v))
        => /\ result[v].kind = "ok"
           /\ result[v].decoded.id = args[g].userId
           /\ result[v].decoded.email = args[g].email
           /\ DOMAIN result[v].decoded = {"id", "email", "iat", "exp"}
           /\ result[v].decoded.iat = stamp[g]
           /\ result[v].decoded.exp = stamp[g] + JWT_EXPIRES_IN

\* C9 witness: a generated token has been verified in time.
RoundTripDone ==
    \E g, v \in Procs :
        /\ Done(g, "generateToken") /\ VerifiedInTime(g, v)
        /\ result[v].kind = "ok"
        /\ stamp[v] > stamp[g]

\* Slot v holds the outcome of verifyToken on the token that slot g returned.
VerifiedHeld(g, v) ==
    /\ pc[g] = "done" /\ result[g].token.form = "jwt"
    /\ Done(v, "verifyToken")
    /\ args[v].token = result[g].token

\* The instant slot g's token was issued: the clock reading of a
\* generateToken call, the iat claim of a token of register or login.
IssuedAt(g) ==
    IF op[g] = "generateToken" THEN stamp[g] ELSE result[g].token.payload.iat

\* C10: a token issued at t verifies at every instant before
\* t + JWT_EXPIRES_IN and fails with 'Invalid or expired token' at every
\* instant after it; a token that fails now fails at every later instant.
TokenLifetime ==
    /\ [](\A g, v \in Procs :
            VerifiedHeld(g, v)
            => /\ stamp[v] < IssuedAt(g) + JWT_EXPIRES_IN
                    => result[v].kind = "ok"
               /\ stamp[v] > IssuedAt(g) + JWT_EXPIRES_IN
                    => result[v] = Err(MsgInvalidToken))
    /\ [][\A t \in HeldTokens :
            verifyToken(t, now).kind = "error"
            => verifyToken(t, now').kind = "error"]_vars

\* C10 witness: a token has been refused after its lifetime.
TokenRefusedAfterLifetime ==
    \E g, v \in Procs :
        /\ VerifiedHeld(g, v) /\ op[g] = "generateToken"
        /\ stamp[v] > stamp[g] + JWT_EXPIRES_IN
        /\ result[v] = Err(MsgInvalidToken)

\* A token that jwt.sign made under JWT_SECRET and that has not expired at t.
Genuine(token, t) ==
    /\ token.form = "jwt"
    /\ token.sig.alg = "HS256" /\ token.sig.key = JWT_SECRET
    /\ token.sig.signed = token.payload
    /\ t < token.payload.exp

\* C11: every verifyToken that fails, whatever the cause, fails with
\* 'Invalid or expired token' and returns no payload; a verifyToken returns
\* a payload only for a token signed under the secret and not expired, and
\* then the payload of that token.
VerifyTokenUniformError ==
    \A v \in Procs :
        Done(v, "verifyToken")
        => /\ ~Genuine(args[v].token, stamp[v])
                => result[v] = Err(MsgInvalidToken)
           /\ result[v].kind = "error"
                => /\ result[v].message = MsgInvalidToken
                   /\ result[v].decoded = NoPayload
           /\ result[v].kind = "ok"
                => /\ Genuine(args[v].token, stamp[v])
                   /\ result[v].decoded = args[v].token.payload

\* C11 witness: a token whose expiry a client moved past the clock, under
\* the old signature, was refused when the genuine token had expired.
ForgedTokenRefusedUniformly ==
    \E g, v \in Procs :
        /\ Done(g, "generateToken") /\ Done(v, "verifyToken")
        /\ args[v].token = [result[g].token EXCEPT !.payload.exp = @ + 1]
        /\ stamp[v] = result[g].token.payload.exp
        /\ result[v] = Err(MsgInvalidToken)

\* The fields of a row that may leave the service.
PublicFields ==
    {"id", "email", "firstName", "lastName", "isActive", "lastLogin"}

\* C12: a getUserById(id) step fails with 'User not found' when the table
\* has no row with that id, and otherwise returns the fields of the row
\* with that id, as stored, without the password hash.
GetUserByIdReturnsThatRow ==
    [][\A p \in Procs :
         GetUserById(p)
         => IF \A i \in 1..Len(users) : users[i].id # args'[p].userId
            THEN result'[p] = Err(MsgNotFound)
            ELSE /\ result'[p].kind = "ok"
                 /\ DOMAIN result'[p].user = PublicFields
                 /\ result'[p].user.id = args'[p].userId
                 /\ \E i \in 1..Len(users) :
                      /\ users[i].id = args'[p].userId
                      /\ \A f \in PublicFields :
                           result'[p].user[f] = users[i][f]]_vars

\* C12 witness: with two rows in the table, getUserById returned the second.
GetUserByIdAmongTwoRows ==
    \E p \in Procs :
        /\ Done(p, "getUserById") /\ Len(users) = 2
        /\ args[p].userId = 2
        /\ result[p].kind = "ok"
        /\ result[p].user.email = users[2].email
        /\ result[p].user.email # users[1].email

\* The header entitles its sender to the profile now: a Bearer token that
\* verifies, whose id names a row with isActive = true.
Entitled(h) ==
    /\ h.scheme = "Bearer"
    /\ Genuine(h.token, now)
    /\ \E i \in 1..Len(users) :
         users[i].id = h.token.payload.id /\ users[i].isActive

\* This step is the arrival of a GET /api/auth/me in slot p.
MeArrives(p) ==
    /\ served' # served /\ http'[p].route = "me"
    /\ HttpMeAuthenticate(p)

\* C13: a GET /api/auth/me whose header entitles it when authenticate looks
\* the user up reaches the profile handler and is answered 200 with
\* success:true and the profile of the token's user; every other one is
\* answered 401 with success:false and the profile handler does not run.
MeAnswers200IffEntitled ==
    [][\A p \in Procs :
         /\ MeArrives(p)
            => IF Entitled(http'[p].header)
               THEN /\ http'[p].stage = "handler" /\ http'[p].handler
                    /\ pc'[p] = "me_profile"
               ELSE /\ http'[p].stage = "answered"
                    /\ http'[p].status = 401 /\ ~http'[p].success
                    /\ ~http'[p].handler /\ op'[p] = "none"
         /\ HttpMeProfile(p)
            => /\ http'[p].stage = "answered"
               /\ http'[p].status = 200 /\ http'[p].success
               /\ http'[p].user.id = http[p].header.token.payload.id
               /\ \E i \in 1..Len(users) :
                    /\ users[i].id = http'[p].user.id
                    /\ \A f \in PublicFields :
                         http'[p].user[f] = users[i][f]]_vars

\* C13 witness: the token of a successful login was refused with 401, the
\* handler not run, after the account had been disabled; and it was not
\* expired.
MeRefusedAfterDisable ==
    \E p, q \in Procs :
        /\ http[q].route = "login" /\ http[q].status = 200
        /\ http[p].route = "me" /\ http[p].stage = "answered"
        /\ http[p].header = Bearer(http[q].token)
        /\ now < http[q].token.payload.exp
        /\ http[p].status = 401 /\ http[p].message = MsgDisabled
        /\ ~http[p].handler

\* Slot p holds an answered request of the route whose controller ran.
Handled(p, route) ==
    /\ http[p].route = route /\ http[p].stage = "answered"
    /\ http[p].handler

\* C14: a POST /api/auth/register whose registration succeeded is answered
\* 201 with success:true and the user and token register returned; one
\* whose email was already registered is answered 400 with success:false.
RegisterAnswers201Or400 ==
    \A p \in Procs :
        Handled(p, "register")
        => /\ result[p].kind = "ok"
                => /\ http[p].status = 201 /\ http[p].success
                   /\ http[p].user = result[p].user
                   /\ http[p].token = result[p].token
           /\ existingUser[p] # NoUser
                => http[p].status = 400 /\ ~http[p].success

\* C15: a POST /api/auth/login with valid credentials is answered 200 with
\* success:true and the user and token login returned; one whose email is
\* unknown, whose password is wrong or whose account is disabled is
\* answered 401 with success:false.
LoginAnswers200Or401 ==
    \A p \in Procs :
        Handled(p, "login")
        => /\ result[p].kind = "ok"
                => /\ http[p].status = 200 /\ http[p].success
                   /\ http[p].user = result[p].user
                   /\ http[p].token = result[p].token
           /\ result[p].kind = "error"
                => http[p].status = 401 /\ ~http[p].success

\* The body fails the register schema for one of the reasons C16 names.
FailsRegisterSchema(b) ==
    IF "email" \notin DOMAIN b \/ "password" \notin DOMAIN b THEN TRUE
    ELSE \/ ~IsEmail(b.email)
         \/ Len(b.password) < 6
         \/ Len(b.password) > 100

\* C16: a register request whose body fails the schema is answered 400 with
\* success:false and 'Validation failed'; the controller does not run, no
\* service or store method is called, and the table is left as it was.
SchemaFailureStopsRequest ==
    /\ [](\A p \in Procs :
            (/\ http[p].route = "register" /\ http[p].stage = "answered"
             /\ FailsRegisterSchema(http[p].body))
            => /\ http[p].status = 400 /\ ~http[p].success
               /\ http[p].message = MsgValidationFailed
               /\ ~http[p].handler
               /\ op[p] = "none" /\ calls[p] = {})
    /\ [][\A p \in Procs :
            (/\ http'[p] # http[p] /\ http'[p].route = "register"
             /\ FailsRegisterSchema(http'[p].body))
            => users' = users]_vars

\* C16 witness: a registration of an unregistered email with a password of
\* three characters was answered 400 and left no row.
ShortPasswordRejected ==
    \E p \in Procs :
        /\ http[p].route = "register" /\ http[p].stage = "answered"
        /\ http[p].body = [email |-> "b@x.io", password |-> "123",
                           firstName |-> "Ann", lastName |-> "Lee"]
        /\ http[p].status = 400 /\ http[p].message = MsgValidationFailed
        /\ \A u \in Rows : u.email # "b@x.io"

\* C20: an error the controller of register or login throws is answered
\* with the status and message the controller gave it, and no request
\* whose body passed the schema is answered 500 'Validation error
\* occurred'.
HandlerErrorReachesErrorHandler ==
    \A p \in Procs :
        \A route \in {"register", "login"} :
            (Handled(p, route) /\ result[p].kind = "error")
            => /\ http[p].status = (IF route = "register" THEN 400 ELSE 401)
               /\ http[p].message = result[p].message
               /\ http[p].message # MsgValidationError

\* C17: a request during which the store failed unexpectedly is answered
\* with a status from 500 to 599.
PersistenceFailureAnswered5xx ==
    \A p \in Procs :
        (/\ http[p].stage = "answered"
         /\ \/ result[p] = Err(MsgConnection)
            \/ http[p].message = MsgConnection)
        => http[p].status \in 500..599

\* The columns of the User table.
RowFields == PublicFields \cup {"password"}

\* C18: the outcome a verifyToken call gave is the outcome the same token
\* gives at the same instant in every store state reached afterwards; two
\* calls on one token at one instant agree; and no row of the table has a
\* column for tokens.
StatelessVerification ==
    /\ \A v \in Procs :
          Done(v, "verifyToken")
          => result[v] = verifyToken(args[v].token, stamp[v])
    /\ \A v, w \in Procs :
          (/\ Done(v, "verifyToken") /\ Done(w, "verifyToken")
           /\ args[v].token = args[w].token /\ stamp[v] = stamp[w])
          => result[v] = result[w]
    /\ \A i \in 1..Len(users) : DOMAIN users[i] = RowFields

\* C18 witness: the token of a login verified, and the store has moved on:
\* the token's user is disabled.
TokenOfDisabledUserVerified ==
    \E g, v \in Procs :
        /\ VerifiedHeld(g, v) /\ op[g] = "login"
        /\ result[v].kind = "ok"
        /\ ~Stored(result[v].decoded.id).isActive

\* No request moved in this step.
NoServiceStep == UNCHANGED <<served, pc, op, args, result, calls>>

\* C19: rows are never removed; a row's id, email, password and names never
\* change; isActive changes only in steps that are not the service's;
\* lastLogin changes only by the UPDATE of a login of that user; and a row
\* appears only by the INSERT of a register, one at a time, with the
\* registered email and isActive = true.
UserLifecycle ==
    [][/\ Len(users') >= Len(users)
       /\ \A i \in 1..Len(users) :
            /\ users'[i].id = users[i].id
            /\ users'[i].email = users[i].email
            /\ users'[i].password = users[i].password
            /\ users'[i].firstName = users[i].firstName
            /\ users'[i].lastName = users[i].lastName
            /\ users'[i].isActive # users[i].isActive => NoServiceStep
            /\ users'[i].lastLogin # users[i].lastLogin
                 => \E p \in Procs :
                      /\ op[p] = "login" /\ pc[p] = "login_update"
                      /\ pc'[p] = "login_token"
                      /\ user[p].id = users[i].id
       /\ Len(users') > Len(users)
            => /\ Len(users') = Len(users) + 1
               /\ users'[Len(users')].isActive
               /\ \E p \in Procs :
                    /\ op[p] = "register" /\ pc[p] = "reg_create"
                    /\ pc'[p] = "reg_token"
                    /\ users'[Len(users')].email = args[p].email]_vars

\* C19 witness: a register has added a row and a login has set the
\* lastLogin of another.
RegisteredAndLoggedIn ==
    \E p, q \in Procs :
        /\ Done(p, "register") /\ result[p].kind = "ok"
        /\ Done(q, "login") /\ result[q].kind = "ok"
        /\ Len(users) = 2
        /\ result[p].user.id # result[q].user.id
        /\ Stored(result[q].user.id).lastLogin # NoTime
        /\ Stored(result[p].user.id).lastLogin = NoTime

\* This step ends the call of slot p in failure.
FailsNow(p) ==
    /\ pc'[p] = "done" /\ result'[p].kind = "error"
    /\ \/ RegisterFindOne(p) \/ RegisterCreate(p)
       \/ LoginFindOne(p) \/ LoginCompare(p)
       \/ GetUserById(p) \/ VerifyTokenCall(p, args'[p].token)

\* This step is a call of getUserById or verifyToken in slot p.
ReadsNow(p) ==
    /\ served' # served
    /\ GetUserById(p) \/ VerifyTokenCall(p, args'[p].token)

\* C21: a call that has failed carries no token and has called neither
\* User.create after finding the email taken nor user.update; the step in
\* which a call fails leaves the table as it was, and so does every
\* getUserById and verifyToken.
FailedCallLeavesStore ==
    /\ [](\A p \in Procs :
            (pc[p] = "done" /\ result[p].kind = "error")
            => /\ result[p].token = NoToken
               /\ result[p].user = NoProjection
               /\ "update" \notin calls[p] /\ persisted[p] = NoTime
               /\ existingUser[p] # NoUser => "create" \notin calls[p])
    /\ [][\A p \in Procs :
            (FailsNow(p) \/ ReadsNow(p)) => users' = users]_vars

\* C21 witness: a login with a wrong password has failed, and the row of
\* its user is as the login found it, lastLogin never set.
WrongPasswordLeftRow ==
    \E p \in Procs :
        /\ Done(p, "login") /\ result[p] = Err(MsgInvalidCredentials)
        /\ user[p] # NoUser
        /\ Stored(user[p].id) = user[p]
        /\ Stored(user[p].id).lastLogin = NoTime

\* The tokens that register and login have returned and that are held.
IssuedTokens ==
    {result[q].token :
        q \in {r \in Procs : /\ pc[r] = "done"
                             /\ op[r] \in {"register", "login"}
                             /\ result[r].kind = "ok"}}

\* The table has a row with the id and the email the token carries.
NamesRow(t) ==
    \E i \in 1..Len(users) :
        /\ users[i].id = t.payload.id
        /\ users[i].email = t.payload.email

\* C22: every token register or login has returned carries the id and
\* email of a row of the table, in the state of its return and in every
\* state after it, and a getUserById on the id of such a token does not
\* fail with 'User not found'.
IssuedTokenNamesRow ==
    /\ [](\A t \in IssuedTokens : t.form = "jwt" /\ NamesRow(t))
    /\ [][\A t \in IssuedTokens : NamesRow(t) => NamesRow(t)']_vars
    /\ [][\A p \in Procs :
            (/\ served' # served /\ GetUserById(p)
             /\ \E t \in IssuedTokens : t.payload.id = args'[p].userId)
            => result'[p].kind = "ok"]_vars

\* C22 witness: getUserById on the id of the token a register returned has
\* given the user the token names.
TokenOfRegisterFetched ==
    \E p, q \in Procs :
        /\ Done(p, "register") /\ result[p].kind = "ok"
        /\ Done(q, "getUserById")
        /\ args[q].userId = result[p].token.payload.id
        /\ result[q].kind = "ok"
        /\ result[q].user.email = result[p].token.payload.email

====
